---- MODULE Spec2Model ----
(***************************************************************************)
(* A model of http-service (src/src/lib.rs): the streaming Body, its       *)
(* consumption by into_vec, the HttpService contract and the blanket       *)
(* adapter that turns a plain function into a service.                     *)
(***************************************************************************)
EXTENDS Integers, Sequences, FiniteSets, TLC

(* ---------------------------------------------------------------------- *)
(* Bounds and input sets                                                   *)
(* ---------------------------------------------------------------------- *)

\* longest underlying stream (number of scripted poll results)
MaxLen == 3

\* number of distinct io::Error values
NumErrors == 2

\* direct pulls on a body are cut off after this many
MaxPulls == MaxLen + 2

\* the chunks (Bytes values) streams are built from
Chunks == { <<>>, <<1>>, <<2, 3>> }

\* the owned buffer types with an Into<Bytes> conversion
BufferKinds == { "Vec", "String", "Bytes" }

Buffers == [ kind : BufferKinds, data : Chunks ]

(* ---------------------------------------------------------------------- *)
(* Poll results: Poll<Option<Result<Bytes, io::Error>>>                    *)
(* ---------------------------------------------------------------------- *)

Pending == [ tag |-> "Pending", val |-> <<>>, err |-> 0 ]

None == [ tag |-> "None", val |-> <<>>, err |-> 0 ]

Ok(c) == [ tag |-> "Ok", val |-> c, err |-> 0 ]

Err(e) == [ tag |-> "Err", val |-> <<>>, err |-> e ]

NoResult == [ tag |-> "NoResult", val |-> <<>>, err |-> 0 ]

\* what a poll of a live stream may answer
Items == { Pending } \cup { Ok(c) : c \in Chunks } \cup { Err(e) : e \in 1..NumErrors }

\* every stream of at most MaxLen scripted poll results; a stream polled
\* past its script has ended and answers None
Scripts == UNION { [ 1..n -> Items ] : n \in 0..MaxLen }

VARIABLES
    pc,        \* position of the body's owner
    ctor,      \* which constructor built the body
    arg,       \* the buffer given to Body::from
    stream0,   \* the stream the body was built around
    stream,    \* Body.stream: what is left of it
    pulled,    \* every result Body::poll_next has returned, in order
    callAt,    \* number of pulls made before into_vec was called
    bytes,     \* into_vec's local `bytes`
    result,    \* what into_vec returned
    f,         \* the function the blanket impl wraps
    log,       \* the calls made on the function service, with what each did
    status,    \* per connection: where the transport is with it
    conn,      \* per connection: the Connection value the transport keeps
    connected, \* per connection: how connect resolved
    calls,     \* per connection and request: how far its respond call is
    view       \* per connection and request: the Connection the call saw

bodyVars == << pc, ctor, arg, stream0, stream, pulled, callAt, bytes, result >>

fnVars == << f, log >>

transportVars == << status, conn, connected, calls, view >>

NoBuffer == [ kind |-> "Vec", data |-> <<>> ]

(* ---------------------------------------------------------------------- *)
(* The underlying stream and Body's Stream impl                            *)
(* ---------------------------------------------------------------------- *)

\* one poll of the boxed stream: its next scripted result
StreamPoll(s) ==
    IF s = <<>> THEN [ item |-> None, rest |-> <<>> ]
    ELSE [ item |-> Head(s), rest |-> Tail(s) ]

\* a body that replays the result it has just returned instead of advancing
BodyPollNextRetry(s) ==
    IF s = <<>> THEN [ item |-> None, rest |-> <<>> ]
    ELSE IF Head(s).tag = "Err" THEN [ item |-> Head(s), rest |-> s ]
    ELSE [ item |-> Head(s), rest |-> Tail(s) ]

\* Body::poll_next delegates to the wrapped stream
BodyPollNext(s) == StreamPoll(s)

\* a stream of one chunk of no bytes
StreamOfEmptyChunk == << Ok(<<>>) >>

\* stream::empty()
StreamEmpty == <<>>

\* stream::once(future::ok(b)): one item, then exhausted
StreamOnce(b) == << Ok(b) >>

\* T: Into<Bytes>: the bytes of the owned buffer
IntoBytes(x) == x.data

(* ---------------------------------------------------------------------- *)
(* Constructors                                                            *)
(* ---------------------------------------------------------------------- *)

FromStream(s, how, b) ==
    /\ pc = "none"
    /\ pc' = "built"
    /\ ctor' = how
    /\ arg' = b
    /\ stream0' = s
    /\ stream' = s
    /\ UNCHANGED << pulled, callAt, bytes, result >>
    /\ UNCHANGED << fnVars, transportVars >>

BodyFromStream == \E s \in Scripts : FromStream(s, "from_stream", NoBuffer)

BodyEmpty == FromStream(StreamEmpty, "empty", NoBuffer)

\* a conversion that builds an empty body and loses the buffer
BodyFromLossy == \E b \in Buffers : FromStream(StreamEmpty, "from", b)

BodyFrom == \E b \in Buffers : FromStream(StreamOnce(IntoBytes(b)), "from", b)

(* ---------------------------------------------------------------------- *)
(* Consumers                                                               *)
(* ---------------------------------------------------------------------- *)

\* a consumer polls the body through its Stream impl
PollNext ==
    /\ pc \in { "built", "streaming" }
    /\ Len(pulled) < MaxPulls
    /\ LET r == BodyPollNext(stream) IN
        /\ stream' = r.rest
        /\ pulled' = Append(pulled, r.item)
    /\ pc' = "streaming"
    /\ UNCHANGED << ctor, arg, stream0, callAt, bytes, result >>
    /\ UNCHANGED << fnVars, transportVars >>

\* into_vec(mut self): takes the body, let mut bytes = Vec::new()
IntoVecCall ==
    /\ pc \in { "built", "streaming" }
    /\ pc' = "running"
    /\ bytes' = <<>>
    /\ callAt' = Len(pulled)
    /\ UNCHANGED << ctor, arg, stream0, stream, pulled, result >>
    /\ UNCHANGED << fnVars, transportVars >>

IntoVecStep(r) ==
    /\ stream' = r.rest
    /\ pulled' = Append(pulled, r.item)
    /\ CASE r.item.tag = "Pending" ->
              UNCHANGED << pc, bytes, result >>
         [] r.item.tag = "Ok" ->
              /\ bytes' = bytes \o r.item.val
              /\ UNCHANGED << pc, result >>
         [] r.item.tag = "Err" ->
              /\ result' = Err(r.item.err)
              /\ pc' = "done"
              /\ UNCHANGED bytes
         [] r.item.tag = "None" ->
              /\ result' = Ok(bytes)
              /\ pc' = "done"
              /\ UNCHANGED bytes
    /\ UNCHANGED << ctor, arg, stream0, callAt >>
    /\ UNCHANGED << fnVars, transportVars >>

\* an into_vec that skips a failed chunk and keeps reading
IntoVecPollSkipErr ==
    /\ pc = "running"
    /\ LET r == BodyPollNext(stream) IN
         IF r.item.tag = "Err"
         THEN /\ stream' = r.rest
              /\ pulled' = Append(pulled, r.item)
              /\ UNCHANGED << pc, bytes, result, ctor, arg, stream0, callAt >>
              /\ UNCHANGED << fnVars, transportVars >>
         ELSE IntoVecStep(r)

\* an into_vec that puts each chunk in front of the bytes read so far
IntoVecPollPrepend ==
    /\ pc = "running"
    /\ LET r == BodyPollNext(stream) IN
         IF r.item.tag = "Ok"
         THEN /\ stream' = r.rest
              /\ pulled' = Append(pulled, r.item)
              /\ bytes' = r.item.val \o bytes
              /\ UNCHANGED << pc, result, ctor, arg, stream0, callAt >>
              /\ UNCHANGED << fnVars, transportVars >>
         ELSE IntoVecStep(r)

\* an into_vec that hands back what it has read when the stream fails
IntoVecPollPartial ==
    /\ pc = "running"
    /\ LET r == BodyPollNext(stream) IN
         IF r.item.tag = "Err"
         THEN /\ stream' = r.rest
              /\ pulled' = Append(pulled, r.item)
              /\ result' = Ok(bytes)
              /\ pc' = "done"
              /\ UNCHANGED << bytes, ctor, arg, stream0, callAt >>
              /\ UNCHANGED << fnVars, transportVars >>
         ELSE IntoVecStep(r)

\* one turn of `while let Some(chunk) = await!(self.next())`
IntoVecPoll ==
    /\ pc = "running"
    /\ IntoVecStep(BodyPollNext(stream))

(* ---------------------------------------------------------------------- *)
(* impl<F, Fut> HttpService for F                                          *)
(* ---------------------------------------------------------------------- *)

\* number of distinct requests
NumRequests == 2

\* calls made on the function service in one run
MaxOps == 3

Requests == 1..NumRequests

StatusCodes == { 200, 500 }

\* the value of type ()
Unit == "()"

\* a future: whether its first poll is Ready, and what it resolves to
FutOk(r, s) == [ tag |-> "Ok", status |-> s, ready |-> r ]

FutErr(r) == [ tag |-> "Err", status |-> 0, ready |-> r ]

Futs == { FutOk(r, s) : r \in BOOLEAN, s \in StatusCodes } \cup { FutErr(r) : r \in BOOLEAN }

\* the functions Fn(Request) -> Fut
Functions == [ Requests -> Futs ]

\* a connect that asks the function first
FnConnectProbing(fn) ==
    [ conn |-> Unit, fut |-> [ fn[1] EXCEPT !.status = 0 ], invoked |-> << 1 >> ]

\* connect(&self): future::ok(())
FnConnect(fn) ==
    [ conn |-> Unit, fut |-> [ tag |-> "Ok", status |-> 0, ready |-> TRUE ], invoked |-> <<>> ]

\* a respond that turns the function's error into a 500 response
FnRespondMasking(fn, c, req) ==
    [ conn |-> c,
      fut |-> IF fn[req].tag = "Err" THEN FutOk(fn[req].ready, 500) ELSE fn[req],
      invoked |-> << req >> ]

\* respond(&self, _: &mut (), req): (self)(req)
FnRespond(fn, c, req) ==
    [ conn |-> c, fut |-> fn[req], invoked |-> << req >> ]

Record(op, req, c, r) ==
    /\ Len(log) < MaxOps
    /\ log' = Append(log, [ conn |-> c, fut |-> r.fut, invoked |-> r.invoked,
                            req |-> req, op |-> op, connAfter |-> r.conn ])
    /\ UNCHANGED << f, bodyVars, transportVars >>

Connect == Record("connect", 0, Unit, FnConnect(f))

Respond == \E req \in Requests : Record("respond", req, Unit, FnRespond(f, Unit, req))

(* ---------------------------------------------------------------------- *)
(* A transport driving an HttpService                                      *)
(* ---------------------------------------------------------------------- *)

\* connections the transport accepts
NumConns == 2

\* requests per connection
MaxReqs == 2

Conns == 1..NumConns

CallIds == 1..MaxReqs

\* no Connection value
NoConn == [ owner |-> 0, count |-> 0 ]

\* the respond calls that hold the &mut borrow of c's Connection
Holder(c) == { k \in CallIds : calls[c][k] \in { "entered", "mutated" } }

\* the respond calls issued on c
Issued(c) == { k \in CallIds : calls[c][k] # "unissued" }

\* a respond that needs no Connection value
HasConnectionNotNeeded(c) == TRUE

\* respond takes a Self::Connection, and only connect's Ok value is one
HasConnection(c) == conn[c] # NoConn

\* a respond that takes the Connection by shared reference
BorrowFreeShared(c) == TRUE

\* conn: &mut Self::Connection is an exclusive borrow
BorrowFree(c) == Holder(c) = {}

\* the transport accepts a connection and calls connect
Accept(c) ==
    /\ status[c] = "idle"
    /\ status' = [ status EXCEPT ![c] = "connecting" ]
    /\ UNCHANGED << conn, connected, calls, view, bodyVars, fnVars >>

\* the ConnectionFuture resolves to a Connection
ConnectOk(c) ==
    /\ status[c] = "connecting"
    /\ status' = [ status EXCEPT ![c] = "open" ]
    /\ conn' = [ conn EXCEPT ![c] = [ owner |-> c, count |-> 0 ] ]
    /\ connected' = [ connected EXCEPT ![c] = "ok" ]
    /\ UNCHANGED << calls, view, bodyVars, fnVars >>

\* the ConnectionFuture resolves to an error: the connection is dropped
ConnectErr(c) ==
    /\ status[c] = "connecting"
    /\ status' = [ status EXCEPT ![c] = "closed" ]
    /\ connected' = [ connected EXCEPT ![c] = "err" ]
    /\ UNCHANGED << conn, calls, view, bodyVars, fnVars >>

\* respond(&self, conn, req) is entered for the next request on c
RespondCall(c) ==
    /\ HasConnection(c)
    /\ BorrowFree(c)
    /\ \E k \in CallIds :
        /\ calls[c][k] = "unissued"
        /\ \A j \in 1..(k - 1) : calls[c][j] # "unissued"
        /\ calls' = [ calls EXCEPT ![c][k] = "entered" ]
        /\ view' = [ view EXCEPT ![c][k] = conn[c] ]
    /\ UNCHANGED << status, conn, connected, bodyVars, fnVars >>

\* the service updates the Connection it was handed
RespondMutate(c) ==
    \E k \in CallIds :
        /\ calls[c][k] = "entered"
        /\ calls' = [ calls EXCEPT ![c][k] = "mutated" ]
        /\ conn' = [ conn EXCEPT ![c].count = @ + 1 ]
        /\ UNCHANGED << status, connected, view, bodyVars, fnVars >>

\* respond returns its future, which holds no borrow (Fut: 'static)
RespondReturn(c) ==
    \E k \in CallIds :
        /\ calls[c][k] = "mutated"
        /\ calls' = [ calls EXCEPT ![c][k] = "pending" ]
        /\ UNCHANGED << status, conn, connected, view, bodyVars, fnVars >>

\* the response future resolves to a Response
ResolveOk(c) ==
    \E k \in CallIds :
        /\ status[c] = "open"
        /\ calls[c][k] = "pending"
        /\ calls' = [ calls EXCEPT ![c][k] = "ok" ]
        /\ UNCHANGED << status, conn, connected, view, bodyVars, fnVars >>

\* the response future resolves to an error: the connection is dropped
ResolveErr(c) ==
    \E k \in CallIds :
        /\ status[c] = "open"
        /\ BorrowFree(c)
        /\ calls[c][k] = "pending"
        /\ calls' = [ calls EXCEPT ![c][k] = "err" ]
        /\ status' = [ status EXCEPT ![c] = "closed" ]
        /\ conn' = [ conn EXCEPT ![c] = NoConn ]
        /\ UNCHANGED << connected, view, bodyVars, fnVars >>

\* the peer goes away: the transport drops the connection
Close(c) ==
    /\ status[c] = "open"
    /\ BorrowFree(c)
    /\ status' = [ status EXCEPT ![c] = "closed" ]
    /\ conn' = [ conn EXCEPT ![c] = NoConn ]
    /\ UNCHANGED << connected, calls, view, bodyVars, fnVars >>

(* ---------------------------------------------------------------------- *)
(* Specifications                                                          *)
(* ---------------------------------------------------------------------- *)

BodyInit ==
    /\ pc = "none"
    /\ ctor = "none"
    /\ arg = NoBuffer
    /\ stream0 = <<>>
    /\ stream = <<>>
    /\ pulled = <<>>
    /\ callAt = 0
    /\ bytes = <<>>
    /\ result = NoResult

FnInit(fns) ==
    /\ f \in fns
    /\ log = <<>>

TransportInit ==
    /\ status = [ c \in Conns |-> "idle" ]
    /\ conn = [ c \in Conns |-> NoConn ]
    /\ connected = [ c \in Conns |-> "none" ]
    /\ calls = [ c \in Conns |-> [ k \in CallIds |-> "unissued" ] ]
    /\ view = [ c \in Conns |-> [ k \in CallIds |-> NoConn ] ]

vars == << bodyVars, fnVars, transportVars >>

\* a body, built and consumed
Init == BodyInit /\ FnInit({ [ r \in Requests |-> FutOk(TRUE, 200) ] }) /\ TransportInit

Next ==
    \/ BodyEmpty
    \/ BodyFromStream
    \/ BodyFrom
    \/ PollNext
    \/ IntoVecCall
    \/ IntoVecPoll

Spec == Init /\ [][Next]_vars

\* a function used as a service
FnServiceInit == BodyInit /\ FnInit(Functions) /\ TransportInit

FnServiceNext ==
    \/ Connect
    \/ Respond

FnServiceSpec == FnServiceInit /\ [][FnServiceNext]_vars

\* a transport with its connections
TransportNext ==
    \E c \in Conns :
        \/ Accept(c)
        \/ ConnectOk(c)
        \/ ConnectErr(c)
        \/ RespondCall(c)
        \/ RespondMutate(c)
        \/ RespondReturn(c)
        \/ ResolveOk(c)
        \/ ResolveErr(c)
        \/ Close(c)

TransportSpec == Init /\ [][TransportNext]_vars

(* ---------------------------------------------------------------------- *)
(* What a stream has in store                                              *)
(* ---------------------------------------------------------------------- *)

Terminal(i) == i.tag \in { "None", "Err" }

\* the i-th result of stream s, which answers None once its script is over
ItemAt(s, i) == IF i <= Len(s) THEN s[i] ELSE None

\* the poll at which s first ends or fails
FirstTerminal(s) ==
    IF \E i \in 1..Len(s) : Terminal(s[i])
    THEN CHOOSE i \in 1..Len(s) :
            Terminal(s[i]) /\ \A j \in 1..(i - 1) : ~Terminal(s[j])
    ELSE Len(s) + 1

\* s yields nothing but None after it first ended or failed
Fused(s) == \A i \in 1..Len(s) : i > FirstTerminal(s) => s[i] = None

RECURSIVE Concat(_)
\* the bytes of the successful chunks of s, in order
Concat(s) ==
    IF s = <<>> THEN <<>>
    ELSE (IF Head(s).tag = "Ok" THEN Head(s).val ELSE <<>>) \o Concat(Tail(s))

\* what the wrapped stream still had to produce when into_vec was called
Rem == SubSeq(stream0, callAt + 1, Len(stream0))

\* the results into_vec's pulls returned
Seen == SubSeq(pulled, callAt + 1, Len(pulled))

\* an earlier pull returned None or an error
Ended == \E i \in 1..Len(pulled) : Terminal(pulled[i])

(* ---------------------------------------------------------------------- *)
(* Claims about Body                                                       *)
(* ---------------------------------------------------------------------- *)

\* C1: when the stream yields chunks c1..cn (pending in between or not) and
\* then ends, into_vec returns Ok(c1 ++ ... ++ cn): every byte, once, in order.
C1_IntoVecConcatenates ==
    (pc = "done" /\ ItemAt(Rem, FirstTerminal(Rem)).tag = "None")
        => result = Ok(Concat(SubSeq(Rem, 1, FirstTerminal(Rem) - 1)))

C1_Witness ==
    /\ pc = "done"
    /\ callAt = 0
    /\ stream0 = << Ok(<<2, 3>>), Pending, Ok(<<1>>) >>
    /\ result = Ok(<<2, 3, 1>>)

\* C2: when the stream's first terminal event is an error, into_vec returns
\* exactly that error and never a success value holding the earlier chunks.
C2_IntoVecFailsWithFirstError ==
    (pc = "done" /\ ItemAt(Rem, FirstTerminal(Rem)).tag = "Err")
        => result = Err(ItemAt(Rem, FirstTerminal(Rem)).err)

C2_Witness ==
    /\ pc = "done"
    /\ callAt = 0
    /\ stream0 = << Ok(<<1>>), Err(2), Err(1) >>
    /\ result = Err(2)

\* C3: a body built by Body::from(b) yields one successful chunk holding b's
\* bytes and then None, and into_vec on the fresh body returns Ok(b's bytes).
C3_FromRoundTrip ==
    ctor = "from" =>
        /\ \A i \in 1..Len(pulled) :
              pulled[i] = IF i = 1 THEN Ok(arg.data) ELSE None
        /\ (pc = "done" /\ callAt = 0) => result = Ok(arg.data)

C3_Witness ==
    /\ ctor = "from"
    /\ arg = [ kind |-> "String", data |-> <<2, 3>> ]
    /\ pc = "done"
    /\ pulled = << Ok(<<2, 3>>), None >>
    /\ result = Ok(<<2, 3>>)

\* C4: Body::empty() yields no chunk: every pull, the first included, returns
\* None, and into_vec returns Ok of the empty vector.
C4_EmptyYieldsNothing ==
    ctor = "empty" =>
        /\ \A i \in 1..Len(pulled) : pulled[i] = None
        /\ pc = "done" => result = Ok(<<>>)

C4_Witness ==
    /\ ctor = "empty"
    /\ pc = "done"
    /\ pulled = << None >>
    /\ result = Ok(<<>>)

\* C9 as stated: once a pull has returned None or an error, no later pull on
\* the body produces an item, whatever stream the body wraps.
C9_EndedBodyStaysEnded ==
    [][ (Ended /\ pulled' # pulled)
            => pulled'[Len(pulled')].tag \in { "None", "Pending" } ]_vars

\* C9 as amended: once a pull has returned None or an error, every later pull
\* returns None, provided the wrapped stream itself yields nothing but None
\* after it first ended or failed.
C9_EndedBodyStaysEndedIfFused ==
    [][ (Ended /\ Fused(stream0) /\ pulled' # pulled)
            => pulled'[Len(pulled')] = None ]_vars

C9_Witness ==
    /\ stream0 = << Ok(<<1>>), Err(1) >>
    /\ pulled = << Ok(<<1>>), Err(1), None, None >>

\* C10: into_vec pulls each result up to the stream's first None or error
\* exactly once, in order, and makes no pull after it.
C10_IntoVecStopsAtFirstTerminal ==
    pc = "done" =>
        /\ Len(Seen) = FirstTerminal(Rem)
        /\ \A i \in 1..Len(Seen) : Seen[i] = ItemAt(Rem, i)

C10_Witness ==
    /\ pc = "done"
    /\ callAt = 0
    /\ stream0 = << Ok(<<1>>), Err(1), Ok(<<2, 3>>) >>
    /\ pulled = << Ok(<<1>>), Err(1) >>

(* ---------------------------------------------------------------------- *)
(* Claims about the function service                                       *)
(* ---------------------------------------------------------------------- *)

\* C5: respond(conn, req) on a wrapped function invokes the function once,
\* with req, hands back the function's future as it is, and leaves the
\* connection value alone.
C5_RespondIsTheFunction ==
    \A i \in 1..Len(log) :
        log[i].op = "respond" =>
            /\ log[i].invoked = << log[i].req >>
            /\ log[i].fut = f[log[i].req]
            /\ log[i].connAfter = log[i].conn

C5_Witness ==
    /\ Len(log) = 2
    /\ log[1].op = "respond" /\ log[1].req = 1 /\ log[1].fut = FutErr(FALSE)
    /\ log[2].op = "respond" /\ log[2].req = 2 /\ log[2].fut = FutOk(TRUE, 500)

\* C6: connect on a wrapped function is ready at once with Ok(()) and does
\* not invoke the function, whatever the function does.
C6_ConnectIsReadyOk ==
    \A i \in 1..Len(log) :
        log[i].op = "connect" =>
            /\ log[i].fut = [ tag |-> "Ok", status |-> 0, ready |-> TRUE ]
            /\ log[i].connAfter = Unit
            /\ log[i].invoked = <<>>

C6_Witness ==
    /\ \A r \in Requests : f[r] = FutErr(FALSE)
    /\ Len(log) >= 2
    /\ log[1].op = "respond"
    /\ log[2].op = "connect"

(* ---------------------------------------------------------------------- *)
(* Claims about a transport driving a service                              *)
(* ---------------------------------------------------------------------- *)

\* C7: a respond call is issued on a connection only once its connect has
\* resolved to a Connection; a connection whose connect failed sees no
\* respond call and is closed.
C7_RespondOnlyAfterConnect ==
    \A c \in Conns :
        /\ Issued(c) # {} => connected[c] = "ok"
        /\ connected[c] = "err" => (Issued(c) = {} /\ status[c] = "closed")

C7_Witness ==
    /\ connected[1] = "err"
    /\ status[1] = "closed"
    /\ connected[2] = "ok"
    /\ Issued(2) # {}

\* C8: at most one respond call holds a connection's state at a time, and a
\* call sees and changes the state of its own connection only, also while a
\* call on another connection is running.
C8_ConnectionStateIsExclusive ==
    \A c \in Conns :
        /\ Cardinality(Holder(c)) <= 1
        /\ conn[c] # NoConn =>
              /\ conn[c].owner = c
              /\ conn[c].count =
                    Cardinality({ k \in CallIds :
                        calls[c][k] \in { "mutated", "pending", "ok", "err" } })
        /\ \A k \in Issued(c) : view[c][k] = [ owner |-> c, count |-> k - 1 ]

C8_Witness ==
    /\ calls[1][2] = "mutated"
    /\ calls[2][1] = "entered"
    /\ conn[1] = [ owner |-> 1, count |-> 2 ]
    /\ conn[2] = [ owner |-> 2, count |-> 0 ]

====
